---- MODULE Spec2Model ----
(***************************************************************************)
(* State-machine model of the rest-journal server (src/src/main.rs).       *)
(*                                                                         *)
(* The shared State (journals, tasks, tokens) is guarded by two RwLocks    *)
(* and one Mutex.  Every request handler is a process: a request is        *)
(* received (its inputs are fixed), then the handler runs its critical     *)
(* sections one after the other.  Each critical section is two steps: the  *)
(* lock acquisition (which blocks) and the body together with the release  *)
(* of the guard at the end of its scope.                                   *)
(*                                                                         *)
(* Strings are sequences of one-character strings.  A JSON document is the *)
(* sequence of its members in the order they are written.  sha256 is       *)
(* modelled as an injective function of the digested string.  The clock    *)
(* counts minutes.                                                         *)
(***************************************************************************)
EXTENDS Integers, Sequences, FiniteSets, TLC

\* ---- bounds of the model ------------------------------------------------
NumHandlers == 2      \* request handlers that can be in flight together
MaxRequests == 3      \* requests received in one behaviour
MaxClock    == 4      \* last minute the clock reaches
SeedCount   == 2      \* entries main() seeds each collection with (0..10 in the code)

\* 60 * 3 seconds, in minutes
VALID_TIME_TOKEN == 3

Procs  == 1..NumHandlers
NoProc == 0
Colls  == {"journals", "tasks"}

\* ---- strings, JSON, etags -------------------------------------------------
Digits == <<"0", "1", "2", "3", "4", "5", "6", "7", "8", "9">>

\* format!("Do the {}", i) and format!("Title {}", i), for i < 10
DoThe(i)   == <<"D", "o", " ", "t", "h", "e", " ", Digits[i + 1]>>
TitleOf(i) == <<"T", "i", "t", "l", "e", " ", Digits[i + 1]>>
HelloWorld == <<"H", "e", "l", "l", "o", " ", "W", "o", "r", "l", "d", "!">>

\* serde_json values: a boolean, a string, or something else (a number)
JBool(x) == [kind |-> "bool", b |-> x,     s |-> <<>>]
JStr(x)  == [kind |-> "str",  b |-> FALSE, s |-> x]
JNum     == [kind |-> "num",  b |-> FALSE, s |-> <<"1">>]
Member(k, v) == [k |-> k, v |-> v]

\* the etag strings: the literals "1" and "" and the digests
EtagLit(x) == [lit |-> x, digest |-> <<>>]
SeedEtag   == EtagLit("1")
EmptyEtag  == EtagLit("")
BogusEtag  == EtagLit("bogus")

\* sha256::digest: injective on the strings it is given
calculate_hash(json_string) == [lit |-> "sha256", digest |-> json_string]

\* serde_json::to_string of a Task / a Journal: the fields in declaration
\* order, the etag skipped (#[serde(skip_serializing)])
to_string_Task(t)    == <<Member("text", JStr(t.text)), Member("done", JBool(t.done))>>
to_string_Journal(j) == <<Member("title", JStr(j.title)), Member("data", JStr(j.data))>>
to_string(coll, r) == IF coll = "tasks" THEN to_string_Task(r) ELSE to_string_Journal(r)

\* a request header: absent, not a string (to_str fails), or a string
NoHeader    == [kind |-> "none", val |-> 0]
BadHeader   == [kind |-> "bad",  val |-> 0]
Header(v)   == [kind |-> "str",  val |-> v]

\* ---- state ----------------------------------------------------------------
VARIABLES
    journals,     \* State.journals: id -> Journal
    tasks,        \* State.tasks: id -> Task
    tokens,       \* State.tokens: Vec<Token>
    tokens_lock,  \* holder of the tokens Mutex, or NoProc
    rwlock,       \* per collection: the writer (or NoProc) and the readers
    now,          \* SystemTime::now(), in minutes
    rng,          \* how many token values thread_rng has produced
    pc,           \* per handler: where it is
    req,          \* per handler: the request it serves
    local,        \* per handler: its local variables
    resp,         \* per handler: the response of its last request
    nreq,         \* requests received so far
    overlap,      \* history: per handler, the handlers whose request overlaps with its request
    consumed,     \* history: token values for which consume_token returned true
    last_write    \* history: per collection, the last successful write

vars == <<journals, tasks, tokens, tokens_lock, rwlock, now, rng, pc, req,
          local, resp, nreq, overlap, consumed, last_write>>

store_vars == <<journals, tasks>>
lock_vars  == <<tokens_lock, rwlock>>

get_hmap(coll) == IF coll = "tasks" THEN tasks ELSE journals

\* ---- requests, locals, responses ---------------------------------------------
NoTask    == [text |-> <<>>, done |-> FALSE, etag |-> EmptyEtag]
NoBody    == [valid |-> FALSE, object |-> FALSE, members |-> <<>>]

NoReq == [op |-> "none", coll |-> "tasks", id |-> 0, ids |-> <<>>, json |-> NoTask,
          payload |-> NoBody, if_match |-> NoHeader, post_token |-> NoHeader,
          page |-> 1, per_page |-> 5, seen |-> EmptyEtag]

\* rmv_age keeps the age of the token consume_token removed (-1: it removed none)
NoLocal == [new_task |-> NoTask, location |-> -1, ids |-> <<>>, rmv_age |-> -1]

\* what the clients send
TextA == <<"a">>
TextB == <<"b">>
TaskPayloads    == {[text |-> TextA, done |-> FALSE, etag |-> EmptyEtag],
                    [text |-> TextB, done |-> TRUE, etag |-> EmptyEtag]}
JournalPayloads == {[title |-> TextA, data |-> TextB, etag |-> EmptyEtag]}
Payloads(coll)  == IF coll = "tasks" THEN TaskPayloads ELSE JournalPayloads
IdMenu          == 0..(SeedCount + 1)

NoResp == [status |-> 0, body |-> "", etag |-> EmptyEtag, location |-> -1,
           token |-> 0, resource |-> NoTask,
           page |-> 0, total_entries |-> 0, total_pages |-> 0, entries |-> <<>>]

Response(status, body) == [NoResp EXCEPT !.status = status, !.body = body]
Panicked == Response(-1, "panic")

\* a record of a successful write: who, for which request, at which id, the
\* resource before it (if one existed) and after it (if one is left)
NoWrite == [proc |-> NoProc, req |-> NoReq, id |-> 0, existed |-> FALSE, old |-> NoTask,
            remains |-> FALSE, new |-> NoTask]

\* ---- construction: main() -----------------------------------------------------
SeedJournal(i) == [title |-> TitleOf(i), data |-> HelloWorld, etag |-> SeedEtag]
SeedTask(i)    == [text |-> DoThe(i), done |-> FALSE, etag |-> SeedEtag]

Init ==
    /\ journals = [i \in 0..(SeedCount - 1) |-> SeedJournal(i)]
    /\ tasks = [i \in 0..(SeedCount - 1) |-> SeedTask(i)]
    /\ tokens = <<>>
    /\ tokens_lock = NoProc
    /\ rwlock = [c \in Colls |-> [writer |-> NoProc, readers |-> {}]]
    /\ now = 0
    /\ rng = 0
    /\ pc = [p \in Procs |-> "idle"]
    /\ req = [p \in Procs |-> NoReq]
    /\ local = [p \in Procs |-> NoLocal]
    /\ resp = [p \in Procs |-> NoResp]
    /\ nreq = 0
    /\ overlap = [p \in Procs |-> {}]
    /\ consumed = <<>>
    /\ last_write = [c \in Colls |-> NoWrite]

\* ---- locks ---------------------------------------------------------------------
CanWrite(c) == rwlock[c].writer = NoProc /\ rwlock[c].readers = {}
CanRead(c)  == rwlock[c].writer = NoProc

InFlight(q) == pc[q] \notin {"idle", "done", "panicked"}

\* a handler takes the next request: its inputs are fixed from here on
Receive(p, r, start) ==
    /\ ~InFlight(p)
    /\ nreq < MaxRequests
    /\ nreq' = nreq + 1
    /\ req' = [req EXCEPT ![p] = r]
    /\ local' = [local EXCEPT ![p] = NoLocal]
    /\ resp' = [resp EXCEPT ![p] = NoResp]
    /\ pc' = [pc EXCEPT ![p] = start]
    /\ overlap' = [q \in Procs |->
                     IF q = p THEN {x \in Procs \ {p} : InFlight(x)}
                     ELSE IF InFlight(q) THEN overlap[q] \cup {p}
                     ELSE overlap[q] \ {p}]
    /\ UNCHANGED <<journals, tasks, tokens, tokens_lock, rwlock, now, rng,
                   consumed, last_write>>

Reply(p, r) ==
    /\ resp' = [resp EXCEPT ![p] = r]
    /\ pc' = [pc EXCEPT ![p] = "done"]

\* the wall clock advances
Tick ==
    /\ now < MaxClock
    /\ now' = now + 1
    /\ UNCHANGED <<journals, tasks, tokens, tokens_lock, rwlock, rng, pc, req,
                   local, resp, nreq, overlap, consumed, last_write>>

\* ---- the token ledger ----------------------------------------------------------
\* mutant: the sweep keeps every entry
retain_all(toks, timestamp) == toks

\* tokens.retain(|item| item.timestamp >= (timestamp - VALID_TIME_TOKEN))
retain(toks, timestamp) ==
    SelectSeq(toks, LAMBDA item : item.timestamp >= timestamp - VALID_TIME_TOKEN)

\* tokens.iter().position(|x| *x.value == *token); 0 stands for None
position(toks, token) ==
    IF \E i \in 1..Len(toks) : toks[i].value = token
    THEN CHOOSE i \in 1..Len(toks) :
            /\ toks[i].value = token
            /\ \A j \in 1..(i - 1) : toks[j].value # token
    ELSE 0

\* mutant: the token found is left in the ledger
remove_nothing(toks, index) == toks

\* Vec::remove(index)
remove(toks, index) == SubSeq(toks, 1, index - 1) \o SubSeq(toks, index + 1, Len(toks))

\* mutant: the comparison made strict the other way (an age equal to the window is rejected)
is_allowed_strict(rmv, time) == ~(rmv.timestamp <= time - VALID_TIME_TOKEN)

\* mutant: no expiry check
is_allowed_always(rmv, time) == TRUE

\* the result of consume_token for the removed token: false when
\* rmv.timestamp < (SystemTime::now() - VALID_TIME_TOKEN)
is_allowed(rmv, time) == ~(rmv.timestamp < time - VALID_TIME_TOKEN)

\* POST /tokens
gen_token_recv(p) ==
    Receive(p, [NoReq EXCEPT !.op = "gen_token"], "gen_token_lock")

gen_token_lock(p) ==
    /\ pc[p] = "gen_token_lock"
    /\ tokens_lock = NoProc
    /\ tokens_lock' = p
    /\ pc' = [pc EXCEPT ![p] = "gen_token"]
    /\ UNCHANGED <<journals, tasks, tokens, rwlock, now, rng, req, local, resp,
                   nreq, overlap, consumed, last_write>>

\* State::gen_token under the mutex, then the 201 response
gen_token(p) ==
    /\ pc[p] = "gen_token"
    /\ tokens_lock = p
    /\ LET timestamp == now
           str_value == rng + 1
       IN /\ tokens' = Append(retain(tokens, timestamp),
                              [timestamp |-> timestamp, value |-> str_value])
          /\ rng' = rng + 1
          /\ Reply(p, [Response(201, "token") EXCEPT !.token = str_value])
    /\ tokens_lock' = NoProc
    /\ UNCHANGED <<journals, tasks, rwlock, now, req, local, nreq, overlap,
                   consumed, last_write>>

\* where a create / merge handler goes on after the token gate
AfterToken(p) == IF req[p].op = "merge_tasks" THEN "merge_tasks_read" ELSE "add_resource_lock"

\* response_token up to the call of consume_token: the header checks, then
\* the mutex is taken
response_token(p) ==
    /\ pc[p] = "response_token"
    /\ CASE req[p].post_token.kind = "none" ->
              /\ Reply(p, Response(400, "Missing token"))
              /\ UNCHANGED tokens_lock
         [] req[p].post_token.kind = "bad" ->
              /\ Reply(p, Response(400, "Error during token retrieval"))
              /\ UNCHANGED tokens_lock
         [] OTHER ->
              /\ tokens_lock = NoProc
              /\ tokens_lock' = p
              /\ pc' = [pc EXCEPT ![p] = "consume_token"]
              /\ UNCHANGED resp
    /\ UNCHANGED <<journals, tasks, tokens, rwlock, now, rng, req, local, nreq,
                   overlap, consumed, last_write>>

\* mutant: the handler goes on to the store with the mutex still held
consume_token_holding(p) ==
    /\ pc[p] = "consume_token"
    /\ tokens_lock = p
    /\ LET token == req[p].post_token.val
           index == position(tokens, token)
           ok    == index # 0 /\ is_allowed(tokens[index], now)
       IN /\ tokens' = IF index # 0 THEN remove(tokens, index) ELSE tokens
          /\ local' = [local EXCEPT ![p].rmv_age =
                            IF index # 0 THEN now - tokens[index].timestamp ELSE -1]
          /\ IF ok
             THEN /\ pc' = [pc EXCEPT ![p] = AfterToken(p)]
                  /\ consumed' = Append(consumed, token)
                  /\ UNCHANGED <<resp, tokens_lock>>
             ELSE /\ Reply(p, Response(400, "Bad token"))
                  /\ tokens_lock' = NoProc
                  /\ UNCHANGED consumed
    /\ UNCHANGED <<journals, tasks, rwlock, now, rng, req, nreq, overlap, last_write>>

\* State::consume_token under the mutex, and the rest of response_token
consume_token(p) ==
    /\ pc[p] = "consume_token"
    /\ tokens_lock = p
    /\ LET token == req[p].post_token.val
           index == position(tokens, token)
           ok    == index # 0 /\ is_allowed(tokens[index], now)
       IN /\ tokens' = IF index # 0 THEN remove(tokens, index) ELSE tokens
          /\ local' = [local EXCEPT ![p].rmv_age =
                            IF index # 0 THEN now - tokens[index].timestamp ELSE -1]
          /\ IF ok
             THEN /\ pc' = [pc EXCEPT ![p] = AfterToken(p)]
                  /\ consumed' = Append(consumed, token)
                  /\ UNCHANGED resp
             ELSE /\ Reply(p, Response(400, "Bad token"))
                  /\ UNCHANGED consumed
    /\ tokens_lock' = NoProc
    /\ UNCHANGED <<journals, tasks, rwlock, now, rng, req, nreq, overlap, last_write>>


\* ---- the resource store ----------------------------------------------------------
\* HashMap::insert and HashMap::remove
Insert(hmap, k, v) == [i \in (DOMAIN hmap) \cup {k} |-> IF i = k THEN v ELSE hmap[i]]
Remove(hmap, k)    == [i \in (DOMAIN hmap) \ {k} |-> hmap[i]]

set_hmap(coll, hmap) ==
    IF coll = "tasks" THEN tasks' = hmap /\ UNCHANGED journals
    ELSE journals' = hmap /\ UNCHANGED tasks

Written(p, coll, id, hmap) ==
    last_write' = [last_write EXCEPT ![coll] =
        [proc |-> p, req |-> req[p], id |-> id,
         existed |-> id \in DOMAIN get_hmap(coll),
         old |-> IF id \in DOMAIN get_hmap(coll) THEN get_hmap(coll)[id] ELSE NoTask,
         remains |-> id \in DOMAIN hmap,
         new |-> IF id \in DOMAIN hmap THEN hmap[id] ELSE NoTask]]

\* let index = resources.len()
next_index(hmap) == Cardinality(DOMAIN hmap)

\* resource.set_etag(calculate_hash(serde_json::to_string(&resource)))
stamped(coll, resource) ==
    [resource EXCEPT !.etag = calculate_hash(to_string(coll, resource))]

\* the write lock of State::add_resource
add_resource_lock(p) ==
    /\ pc[p] = "add_resource_lock"
    /\ CanWrite(req[p].coll)
    /\ rwlock' = [rwlock EXCEPT ![req[p].coll].writer = p]
    /\ pc' = [pc EXCEPT ![p] = "add_resource"]
    /\ UNCHANGED <<journals, tasks, tokens, tokens_lock, now, rng, req, local,
                   resp, nreq, overlap, consumed, last_write>>

\* State::add_resource under the write lock, then what its caller does with
\* the result: post_resource responds 201, merge_tasks goes on to its loop.
\* (to_string cannot fail for a Task or a Journal.)
add_resource(p) ==
    /\ pc[p] = "add_resource"
    /\ rwlock[req[p].coll].writer = p
    /\ LET coll     == req[p].coll
           resource == IF req[p].op = "merge_tasks" THEN local[p].new_task ELSE req[p].json
           index    == next_index(get_hmap(coll))
           hmap     == Insert(get_hmap(coll), index, stamped(coll, resource))
       IN /\ set_hmap(coll, hmap)
          /\ Written(p, coll, index, hmap)
          /\ IF req[p].op = "merge_tasks"
             THEN /\ local' = [local EXCEPT ![p].location = index, ![p].ids = req[p].ids]
                  /\ pc' = [pc EXCEPT ![p] = "merge_tasks_loop"]
                  /\ UNCHANGED resp
             ELSE /\ Reply(p, [Response(201, "OK") EXCEPT !.location = index])
                  /\ UNCHANGED local
    /\ rwlock' = [rwlock EXCEPT ![req[p].coll].writer = NoProc]
    /\ UNCHANGED <<tokens, tokens_lock, now, rng, req, nreq, overlap, consumed>>

\* the Post-Token headers a client can send: none, a broken one, a value that
\* was never issued (0), or any value issued so far
TokenHeaders == {NoHeader, BadHeader} \cup {Header(v) : v \in 0..rng}

\* POST /tasks (coll = "tasks"), POST /journals (coll = "journals")
post_resource_recv(p, coll) ==
    \E json \in Payloads(coll) : \E tok \in TokenHeaders :
        Receive(p, [NoReq EXCEPT !.op = "post_resource", !.coll = coll, !.json = json,
                                 !.post_token = tok], "response_token")

\* the id the next rm_resource of handler p is called with
rm_id(p) == IF req[p].op = "merge_tasks" THEN Head(local[p].ids) ELSE req[p].id

\* the write lock of State::rm_resource: for DELETE, and for the next id of
\* the loop of merge_tasks
rm_resource_lock(p) ==
    /\ \/ pc[p] = "rm_resource_lock"
       \/ pc[p] = "merge_tasks_loop" /\ local[p].ids # <<>>
    /\ CanWrite(req[p].coll)
    /\ rwlock' = [rwlock EXCEPT ![req[p].coll].writer = p]
    /\ pc' = [pc EXCEPT ![p] = "rm_resource"]
    /\ UNCHANGED <<journals, tasks, tokens, tokens_lock, now, rng, req, local,
                   resp, nreq, overlap, consumed, last_write>>

\* State::rm_resource under the write lock, then what its caller does with the
\* result: delete_resource responds 200 or 404; merge_tasks unwraps it, which
\* panics on Err("Not found")
rm_resource(p) ==
    /\ pc[p] = "rm_resource"
    /\ rwlock[req[p].coll].writer = p
    /\ LET coll  == req[p].coll
           id    == rm_id(p)
           found == id \in DOMAIN get_hmap(coll)
           hmap  == Remove(get_hmap(coll), id)
       IN /\ IF found
             THEN set_hmap(coll, hmap) /\ Written(p, coll, id, hmap)
             ELSE UNCHANGED <<journals, tasks, last_write>>
          /\ IF req[p].op = "merge_tasks"
             THEN IF found
                  THEN /\ local' = [local EXCEPT ![p].ids = Tail(local[p].ids)]
                       /\ pc' = [pc EXCEPT ![p] = "merge_tasks_loop"]
                       /\ UNCHANGED resp
                  ELSE /\ resp' = [resp EXCEPT ![p] = Panicked]
                       /\ pc' = [pc EXCEPT ![p] = "panicked"]
                       /\ UNCHANGED local
             ELSE /\ Reply(p, IF found THEN Response(200, "Removed")
                              ELSE Response(404, "Not found"))
                  /\ UNCHANGED local
    /\ rwlock' = [rwlock EXCEPT ![req[p].coll].writer = NoProc]
    /\ UNCHANGED <<tokens, tokens_lock, now, rng, req, nreq, overlap, consumed>>

\* DELETE /tasks/{id}, DELETE /journals/{id}
delete_resource_recv(p, coll) ==
    \E id \in IdMenu :
        Receive(p, [NoReq EXCEPT !.op = "delete_resource", !.coll = coll, !.id = id],
                "rm_resource_lock")

\* GET /tasks/{id}, GET /journals/{id}
get_by_id_recv(p, coll) ==
    \E id \in IdMenu :
        Receive(p, [NoReq EXCEPT !.op = "get_by_id", !.coll = coll, !.id = id],
                "get_by_id_lock")

get_by_id_lock(p) ==
    /\ pc[p] = "get_by_id_lock"
    /\ CanRead(req[p].coll)
    /\ rwlock' = [rwlock EXCEPT ![req[p].coll].readers = @ \cup {p}]
    /\ pc' = [pc EXCEPT ![p] = "get_by_id"]
    /\ UNCHANGED <<journals, tasks, tokens, tokens_lock, now, rng, req, local,
                   resp, nreq, overlap, consumed, last_write>>

get_by_id(p) ==
    /\ pc[p] = "get_by_id"
    /\ p \in rwlock[req[p].coll].readers
    /\ LET resources == get_hmap(req[p].coll)
           id        == req[p].id
       IN IF id \in DOMAIN resources
          THEN Reply(p, [Response(200, "json") EXCEPT !.etag = resources[id].etag,
                                                      !.resource = resources[id]])
          ELSE Reply(p, Response(404, "Not found"))
    /\ rwlock' = [rwlock EXCEPT ![req[p].coll].readers = @ \ {p}]
    /\ UNCHANGED <<journals, tasks, tokens, tokens_lock, now, rng, req, local,
                   nreq, overlap, consumed, last_write>>

\* mutant: the presented etag is not compared with the stored one
check_etag_any(resource, if_match) ==
    CASE if_match.kind = "none" -> Response(428, "ETag is missing!")
      [] if_match.kind = "bad" -> Response(400, "Broken header!")
      [] OTHER -> NoResp

\* mutant: the comparison inverted
check_etag_inverted(resource, if_match) ==
    CASE if_match.kind = "none" -> Response(428, "ETag is missing!")
      [] if_match.kind = "bad" -> Response(400, "Broken header!")
      [] resource.etag = if_match.val -> Response(412, "ETag does not match!")
      [] OTHER -> NoResp

\* mutant: a request without If-Match passes the check
check_etag_optional(resource, if_match) ==
    CASE if_match.kind = "none" -> NoResp
      [] if_match.kind = "bad" -> Response(400, "Broken header!")
      [] resource.etag # if_match.val -> Response(412, "ETag does not match!")
      [] OTHER -> NoResp

\* check_etag: NoResp stands for Ok(())
check_etag(resource, if_match) ==
    CASE if_match.kind = "none" -> Response(428, "ETag is missing!")
      [] if_match.kind = "bad" -> Response(400, "Broken header!")
      [] resource.etag # if_match.val -> Response(412, "ETag does not match!")
      [] OTHER -> NoResp

\* the If-Match headers a client can send for a collection: none, a broken
\* one, a string that is no etag, an etag now stored in the collection, or
\* the header of an earlier request
KnownEtags(coll) ==
    {Header(get_hmap(coll)[i].etag) : i \in DOMAIN get_hmap(coll)}
        \cup {req[q].if_match : q \in {x \in Procs : req[x].if_match.kind = "str"}}
EtagHeaders(coll) == {NoHeader, BadHeader, Header(BogusEtag)} \cup KnownEtags(coll)

\* history: the etag stored at the id when the request is received
SeenEtag(coll, id) ==
    IF id \in DOMAIN get_hmap(coll) THEN get_hmap(coll)[id].etag ELSE EmptyEtag

\* PUT /tasks/{id}, PUT /journals/{id}
put_resource_recv(p, coll, ids, etags) ==
    \E id \in ids : \E json \in Payloads(coll) : \E etag \in etags :
        Receive(p, [NoReq EXCEPT !.op = "put_resource", !.coll = coll, !.id = id,
                                 !.json = json, !.if_match = etag,
                                 !.seen = SeenEtag(coll, id)], "put_resource_lock")

put_resource_lock(p) ==
    /\ pc[p] = "put_resource_lock"
    /\ CanWrite(req[p].coll)
    /\ rwlock' = [rwlock EXCEPT ![req[p].coll].writer = p]
    /\ pc' = [pc EXCEPT ![p] = "put_resource"]
    /\ UNCHANGED <<journals, tasks, tokens, tokens_lock, now, rng, req, local,
                   resp, nreq, overlap, consumed, last_write>>

\* the etag put_resource stores with the new resource
put_etag(coll, json) == calculate_hash(to_string(coll, json))

\* put_resource under the write lock
put_resource(p) ==
    /\ pc[p] = "put_resource"
    /\ rwlock[req[p].coll].writer = p
    /\ LET coll      == req[p].coll
           id        == req[p].id
           resources == get_hmap(coll)
           checked   == IF id \in DOMAIN resources
                        THEN check_etag(resources[id], req[p].if_match)
                        ELSE NoResp
           new_etag  == put_etag(coll, req[p].json)
           hmap      == Insert(resources, id, [req[p].json EXCEPT !.etag = new_etag])
       IN IF checked # NoResp
          THEN /\ Reply(p, checked)
               /\ UNCHANGED <<journals, tasks, last_write>>
          ELSE /\ set_hmap(coll, hmap)
               /\ Written(p, coll, id, hmap)
               /\ Reply(p, [Response(200, "Updated") EXCEPT !.etag = new_etag])
    /\ rwlock' = [rwlock EXCEPT ![req[p].coll].writer = NoProc]
    /\ UNCHANGED <<tokens, tokens_lock, now, rng, req, local, nreq, overlap, consumed>>

\* request bodies of PATCH: bytes that are no JSON, a JSON value that is no
\* object, or an object with its members as the client wrote them
Obj(members) == [valid |-> TRUE, object |-> TRUE, members |-> members]
Scalar       == [valid |-> TRUE, object |-> FALSE, members |-> <<>>]
PatchBodies ==
    {NoBody, Scalar, Obj(<<>>),
     Obj(<<Member("done", JBool(TRUE))>>),
     Obj(<<Member("text", JStr(TextB))>>),
     Obj(<<Member("text", JStr(TextA)), Member("done", JBool(FALSE))>>),
     Obj(<<Member("done", JStr(TextB))>>)}

\* the menus of the requests that race for one task
HotIds      == {0}
RaceBodies  == {Obj(<<Member("done", JBool(TRUE))>>), Obj(<<Member("text", JStr(TextB))>>)}

\* serde_json's Map is a BTreeMap: the members of a parsed object are kept
\* in the order of their keys
KeyRank(k) == CASE k = "done" -> 1 [] k = "text" -> 2 [] OTHER -> 3

RECURSIVE sort_members(_)
sort_members(ms) ==
    IF ms = <<>> THEN <<>>
    ELSE LET i == CHOOSE i \in 1..Len(ms) :
                      \A j \in 1..Len(ms) : KeyRank(ms[i].k) <= KeyRank(ms[j].k)
         IN <<ms[i]>> \o sort_members(SubSeq(ms, 1, i - 1) \o SubSeq(ms, i + 1, Len(ms)))

\* serde_json::from_slice(&payload) as a Value, for valid JSON
from_slice(payload) == [payload EXCEPT !.members = sort_members(payload.members)]

\* serde_json::to_string(&json) of a Value
to_string_Value(json) == json.members

\* json.get(key): the member's value; kind "none" when there is none
json_get(json, key) ==
    IF json.object /\ \E i \in 1..Len(json.members) : json.members[i].k = key
    THEN (CHOOSE m \in {json.members[i] : i \in 1..Len(json.members)} : m.k = key).v
    ELSE [kind |-> "none", b |-> FALSE, s |-> <<>>]

\* mutant: a field the document does not name is reset
patched_whole(task, json) ==
    LET done == json_get(json, "done")
        text == json_get(json, "text")
    IN [task EXCEPT !.done = IF done.kind = "bool" THEN done.b ELSE FALSE,
                    !.text = IF text.kind = "str" THEN text.s ELSE <<>>]

\* the task after patch_task has applied the fields of json it recognizes
patched(task, json) ==
    LET done == json_get(json, "done")
        text == json_get(json, "text")
    IN [task EXCEPT !.done = IF done.kind = "bool" THEN done.b ELSE @,
                    !.text = IF text.kind = "str" THEN text.s ELSE @]

is_updated(json) ==
    json_get(json, "done").kind = "bool" \/ json_get(json, "text").kind = "str"

\* the etag patch_task stores: the hash of the serialized request document
patch_etag(task, json) == calculate_hash(to_string_Value(json))

\* PATCH /tasks/{id}
patch_task_recv(p, ids, payloads, etags) ==
    \E id \in ids : \E payload \in payloads : \E etag \in etags :
        Receive(p, [NoReq EXCEPT !.op = "patch_task", !.id = id, !.payload = payload,
                                 !.if_match = etag, !.seen = SeenEtag("tasks", id)],
                "patch_task_lock")

patch_task_lock(p) ==
    /\ pc[p] = "patch_task_lock"
    /\ CanWrite("tasks")
    /\ rwlock' = [rwlock EXCEPT !["tasks"].writer = p]
    /\ pc' = [pc EXCEPT ![p] = "patch_task"]
    /\ UNCHANGED <<journals, tasks, tokens, tokens_lock, now, rng, req, local,
                   resp, nreq, overlap, consumed, last_write>>

\* patch_task under the write lock
patch_task(p) ==
    /\ pc[p] = "patch_task"
    /\ rwlock["tasks"].writer = p
    /\ LET id      == req[p].id
           json    == from_slice(req[p].payload)
           checked == check_etag(tasks[id], req[p].if_match)
           task    == patched(tasks[id], json)
           hmap    == Insert(tasks, id, [task EXCEPT !.etag = patch_etag(task, json)])
       IN CASE id \notin DOMAIN tasks ->
                 /\ Reply(p, Response(400, "No such resource"))
                 /\ UNCHANGED <<tasks, last_write>>
            [] id \in DOMAIN tasks /\ checked # NoResp ->
                 /\ Reply(p, checked)
                 /\ UNCHANGED <<tasks, last_write>>
            [] id \in DOMAIN tasks /\ checked = NoResp /\ ~req[p].payload.valid ->
                 /\ Reply(p, Response(400, "Broken json"))
                 /\ UNCHANGED <<tasks, last_write>>
            [] id \in DOMAIN tasks /\ checked = NoResp /\ req[p].payload.valid
                    /\ ~is_updated(json) ->
                 /\ Reply(p, Response(400, "Nothing to update"))
                 /\ UNCHANGED <<tasks, last_write>>
            [] OTHER ->
                 /\ tasks' = hmap
                 /\ Written(p, "tasks", id, hmap)
                 /\ Reply(p, [Response(200, "Updated") EXCEPT !.etag = hmap[id].etag])
    /\ rwlock' = [rwlock EXCEPT !["tasks"].writer = NoProc]
    /\ UNCHANGED <<journals, tokens, tokens_lock, now, rng, req, local, nreq,
                   overlap, consumed>>

\* ---- merge_tasks ---------------------------------------------------------------------
\* one step of the fold of merge_tasks over the tasks found
fold_step(acc, item) ==
    [merged |-> acc.merged \o <<"\n">> \o item.text, all_true |-> acc.all_true /\ item.done]

\* info.ids.iter().filter_map(|id| tasks.get(id)).fold((String::new(), true), ...)
RECURSIVE fold_tasks(_, _, _)
fold_tasks(ids, hmap, acc) ==
    IF ids = <<>> THEN acc
    ELSE IF Head(ids) \in DOMAIN hmap
         THEN fold_tasks(Tail(ids), hmap, fold_step(acc, hmap[Head(ids)]))
         ELSE fold_tasks(Tail(ids), hmap, acc)

merged_task(ids, hmap) ==
    LET r == fold_tasks(ids, hmap, [merged |-> <<>>, all_true |-> TRUE])
    IN [text |-> r.merged, done |-> r.all_true, etag |-> EmptyEtag]

\* the id lists a client sends: empty, two tasks in either order, one id
\* twice, an absent id, and the id the merged task will get
MergeMenu ==
    {<<>>, <<0, 1>>, <<1, 0>>, <<0, 0>>, <<0, SeedCount + 1>>, <<SeedCount>>}
FewMerges == {<<>>, <<0, 1>>}

\* POST /task_merger
merge_tasks_recv(p, menu) ==
    \E ids \in menu : \E tok \in TokenHeaders :
        Receive(p, [NoReq EXCEPT !.op = "merge_tasks", !.ids = ids, !.post_token = tok],
                "response_token")

\* let tasks = state.tasks.read().unwrap()
merge_tasks_read(p) ==
    /\ pc[p] = "merge_tasks_read"
    /\ CanRead("tasks")
    /\ rwlock' = [rwlock EXCEPT !["tasks"].readers = @ \cup {p}]
    /\ pc' = [pc EXCEPT ![p] = "merge_tasks_fold"]
    /\ UNCHANGED <<journals, tasks, tokens, tokens_lock, now, rng, req, local,
                   resp, nreq, overlap, consumed, last_write>>

\* the fold under the read lock, up to drop(tasks)
merge_tasks_fold(p) ==
    /\ pc[p] = "merge_tasks_fold"
    /\ p \in rwlock["tasks"].readers
    /\ local' = [local EXCEPT ![p].new_task = merged_task(req[p].ids, tasks)]
    /\ rwlock' = [rwlock EXCEPT !["tasks"].readers = @ \ {p}]
    /\ pc' = [pc EXCEPT ![p] = "add_resource_lock"]
    /\ UNCHANGED <<journals, tasks, tokens, tokens_lock, now, rng, req, resp,
                   nreq, overlap, consumed, last_write>>

\* the loop over info.ids is finished: 201 with the Location
merge_tasks_return(p) ==
    /\ pc[p] = "merge_tasks_loop"
    /\ local[p].ids = <<>>
    /\ Reply(p, [Response(201, "OK") EXCEPT !.location = local[p].location])
    /\ UNCHANGED <<journals, tasks, tokens, tokens_lock, rwlock, now, rng, req,
                   local, nreq, overlap, consumed, last_write>>

\* ---- get_resources -------------------------------------------------------------------
PageMenu    == {0, 1, 2}
PerPageMenu == {0, 1, 5}

\* usize, scaled down: the arithmetic of get_resources is done in UsizeBits bits
UsizeBits == 5
UsizeMod  == 2 ^ UsizeBits
UsizeMax  == UsizeMod - 1

\* the value an operation on usize leaves when it wraps
wrapping(x) == ((x % UsizeMod) + UsizeMod) % UsizeMod

\* the orders resources.keys() can yield: a HashMap iterates in an arbitrary order
KeyOrders(hmap) ==
    {o \in [1..Cardinality(DOMAIN hmap) -> DOMAIN hmap] :
        \A i, j \in DOMAIN o : i # j => o[i] # o[j]}

\* iter.skip(start_index).take(per_page)
skip_take(seq, start_index, per_page) ==
    SubSeq(seq, start_index + 1,
           IF start_index + per_page < Len(seq) THEN start_index + per_page ELSE Len(seq))

\* (total_entries + per_page - 1) / per_page, as a build without overflow
\* checks computes it
total_pages(total_entries, per_page) ==
    wrapping(wrapping(total_entries + per_page) - 1) \div per_page

\* GET /tasks, GET /journals with the query parameters drawn from the menus
get_resources_recv_from(p, coll, pages, per_pages) ==
    \E page \in pages : \E per_page \in per_pages :
        Receive(p, [NoReq EXCEPT !.op = "get_resources", !.coll = coll, !.page = page,
                                 !.per_page = per_page], "get_resources_lock")

\* GET /tasks, GET /journals
get_resources_recv(p, coll) == get_resources_recv_from(p, coll, PageMenu, PerPageMenu)

get_resources_lock(p) ==
    /\ pc[p] = "get_resources_lock"
    /\ CanRead(req[p].coll)
    /\ rwlock' = [rwlock EXCEPT ![req[p].coll].readers = @ \cup {p}]
    /\ pc' = [pc EXCEPT ![p] = "get_resources"]
    /\ UNCHANGED <<journals, tasks, tokens, tokens_lock, now, rng, req, local,
                   resp, nreq, overlap, consumed, last_write>>

\* total_entries + per_page - 1 or (page_num - 1) * per_page leaves usize
overflows(total_entries, page_num, per_page) ==
    \/ total_entries + per_page > UsizeMax
    \/ total_entries + per_page = 0
    \/ page_num = 0
    \/ (page_num - 1) * per_page > UsizeMax

\* let start_index = (page_num - 1) * per_page, as a build without overflow
\* checks computes it
wrapped_start(page_num, per_page) == wrapping(wrapping(page_num - 1) * per_page)

\* get_resources under the read lock.  per_page = 0 divides by zero.  When
\* the arithmetic leaves usize (page = 0, or a page or per_page near the
\* maximum), a build with overflow checks panics and a build without them
\* goes on with the wrapped values.  A panic unwinds through the read guard
\* and releases it.
get_resources(p) ==
    /\ pc[p] = "get_resources"
    /\ p \in rwlock[req[p].coll].readers
    /\ LET resources == get_hmap(req[p].coll)
           page_num  == req[p].page
           per_page  == req[p].per_page
           total     == Cardinality(DOMAIN resources)
           panic     == /\ resp' = [resp EXCEPT ![p] = Panicked]
                        /\ pc' = [pc EXCEPT ![p] = "panicked"]
           listed ==
               \E ids \in KeyOrders(resources) :
                   Reply(p, [Response(200, "json") EXCEPT
                                !.page = page_num, !.total_entries = total,
                                !.total_pages = total_pages(total, per_page),
                                !.entries =
                                    skip_take(ids, wrapped_start(page_num, per_page), per_page)])
       IN CASE per_page = 0 -> panic
            [] per_page # 0 /\ overflows(total, page_num, per_page) -> panic \/ listed
            [] OTHER -> listed
    /\ rwlock' = [rwlock EXCEPT ![req[p].coll].readers = @ \ {p}]
    /\ UNCHANGED <<journals, tasks, tokens, tokens_lock, now, rng, req, local,
                   nreq, overlap, consumed, last_write>>

\* ---- the specifications ----------------------------------------------------------------
\* the routes of main(), each with the steps of its handler
tokens_route(p) == gen_token_recv(p) \/ gen_token_lock(p) \/ gen_token(p)
token_gate(p)   == response_token(p) \/ consume_token(p)
create_steps(p) == add_resource_lock(p) \/ add_resource(p)
remove_steps(p) == rm_resource_lock(p) \/ rm_resource(p)
merger_steps(p) == merge_tasks_read(p) \/ merge_tasks_fold(p) \/ merge_tasks_return(p)
put_steps(p)    == put_resource_lock(p) \/ put_resource(p)
patch_steps(p)  == patch_task_lock(p) \/ patch_task(p)
get_steps(p)    == get_by_id_lock(p) \/ get_by_id(p)
list_steps(p)   == get_resources_lock(p) \/ get_resources(p)

\* the handler that serves the requests when they come one at a time
OneHandler == CHOOSE p \in Procs : TRUE

\* every route of /tokens, /tasks, /tasks/{id} and /task_merger, one request
\* at a time
SerialStep(p) ==
    \/ tokens_route(p) \/ token_gate(p) \/ create_steps(p) \/ remove_steps(p)
    \/ merger_steps(p) \/ put_steps(p) \/ patch_steps(p) \/ get_steps(p) \/ list_steps(p)
    \/ post_resource_recv(p, "tasks")
    \/ merge_tasks_recv(p, MergeMenu)
    \/ delete_resource_recv(p, "tasks")
    \/ get_by_id_recv(p, "tasks")
    \/ get_resources_recv(p, "tasks")
    \/ put_resource_recv(p, "tasks", IdMenu, EtagHeaders("tasks"))
    \/ patch_task_recv(p, IdMenu, PatchBodies, EtagHeaders("tasks"))

Next == SerialStep(OneHandler)
Spec == Init /\ [][Next]_vars

\* the token ledger and the routes it gates, for both collections, the
\* handlers running concurrently while the clock advances
NextLedger ==
    \/ Tick
    \/ \E p \in Procs :
        \/ tokens_route(p) \/ token_gate(p) \/ create_steps(p) \/ remove_steps(p)
        \/ merger_steps(p)
        \/ merge_tasks_recv(p, FewMerges)
        \/ post_resource_recv(p, "tasks")
        \/ post_resource_recv(p, "journals")
SpecLedger == Init /\ [][NextLedger]_vars

\* concurrent PUT and PATCH requests for one task
NextRace ==
    \E p \in Procs :
        \/ put_steps(p) \/ patch_steps(p)
        \/ put_resource_recv(p, "tasks", HotIds, KnownEtags("tasks"))
        \/ patch_task_recv(p, HotIds, RaceBodies, KnownEtags("tasks"))
SpecRace == Init /\ [][NextRace]_vars

\* ---- the claims -----------------------------------------------------------------------
Range(seq) == {seq[i] : i \in 1..Len(seq)}
Values(toks) == {toks[i].value : i \in 1..Len(toks)}

\* handler p executes consume_token in this step
Consumes(p) == pc[p] = "consume_token" /\ pc'[p] # "consume_token"
\* ... and consume_token returns true
Accepted(p) == pc'[p] = AfterToken(p)
\* the age of the ledger's token of value v
AgeOf(v) == now - tokens[position(tokens, v)].timestamp

\* C1: a token value makes consume_token return true at most once.  A consume
\* returns true only for a value that is in the ledger and was never accepted
\* before; it returns true for a value in the ledger that is younger than the
\* validity window; after any consume the value is out of the ledger, so a
\* later consume of it, like a consume of a value that was swept or never
\* issued, returns false.  The handlers run concurrently, so this covers two
\* concurrent consumes of one value.
C1_SingleUse ==
    [][\A p \in Procs : Consumes(p) =>
          LET v == req[p].post_token.val
          IN /\ Accepted(p) => v \in Values(tokens) /\ v \notin Range(consumed)
             /\ (v \in Values(tokens) /\ AgeOf(v) < VALID_TIME_TOKEN) => Accepted(p)
             /\ v \notin Values(tokens')
             /\ \A i, j \in 1..Len(tokens') : i # j => tokens'[i].value # tokens'[j].value
      ]_vars

\* two overlapping requests presented the same issued value: one consume
\* returned true, the other false
C1_Witness ==
    \E p, q \in Procs :
        /\ p # q /\ q \in overlap[p]
        /\ req[p].post_token.kind = "str" /\ req[p].post_token = req[q].post_token
        /\ req[p].post_token.val \in Range(consumed)
        /\ local[p].rmv_age >= 0 /\ pc[p] = "done" /\ resp[p].status = 201
        /\ resp[q].body = "Bad token" /\ local[q].rmv_age = -1

\* C2 as claimed: consume_token on a token of the ledger returns true only
\* if now - issued_at < validity window, it rejects an age equal to the
\* window, and removes the token in both outcomes.
C2_StrictWindow ==
    [][\A p \in Procs : (Consumes(p) /\ req[p].post_token.val \in Values(tokens)) =>
          LET v == req[p].post_token.val
          IN /\ Accepted(p) <=> AgeOf(v) < VALID_TIME_TOKEN
             /\ v \notin Values(tokens')
      ]_vars

\* C2 as amended: consume_token on a token of the ledger returns true if and
\* only if now - issued_at <= validity window (an age equal to the window is
\* still accepted, a greater age is rejected), and it removes the token in
\* both outcomes.
C2_InclusiveWindow ==
    [][\A p \in Procs : (Consumes(p) /\ req[p].post_token.val \in Values(tokens)) =>
          LET v == req[p].post_token.val
          IN /\ Accepted(p) <=> AgeOf(v) <= VALID_TIME_TOKEN
             /\ v \notin Values(tokens')
      ]_vars

\* a token was consumed at an age equal to the window: it was accepted (the
\* create went through) and it is out of the ledger
C2_Witness ==
    \E p \in Procs :
        /\ local[p].rmv_age = VALID_TIME_TOKEN
        /\ pc[p] = "done" /\ resp[p].status = 201
        /\ req[p].post_token.val \notin Values(tokens)

\* the initial contents of the collections
InitialStore ==
    /\ journals = [i \in 0..(SeedCount - 1) |-> SeedJournal(i)]
    /\ tasks = [i \in 0..(SeedCount - 1) |-> SeedTask(i)]

GatedOps == {"post_resource", "merge_tasks"}
StorePcs == {"merge_tasks_read", "merge_tasks_fold", "add_resource_lock", "add_resource",
             "merge_tasks_loop", "rm_resource"}

\* C10: the steps of a create or merge handler up to the end of the token
\* gate leave both collections unchanged; the gate answers 400 "Missing
\* token" without the header and 400 "Bad token" for a value that is not in
\* the ledger (unknown, swept or already consumed) or that is older than the
\* window, and the request ends there; a handler reaches the steps that read
\* or write the store only after its token was consumed; and the
\* collections change only in a step of a handler that is past the gate.
C10_TokenGate ==
    [][/\ \A p \in Procs : (req[p].op \in GatedOps /\ pc'[p] # pc[p]) =>
            LET h == req[p].post_token
            IN /\ pc[p] \in {"response_token", "consume_token"}
                    => UNCHANGED <<journals, tasks>>
               /\ (pc[p] = "response_token" /\ h.kind = "none")
                    => /\ pc'[p] = "done"
                       /\ resp'[p] = Response(400, "Missing token")
               /\ (pc[p] = "consume_token"
                      /\ (h.val \notin Values(tokens) \/ AgeOf(h.val) > VALID_TIME_TOKEN))
                    => /\ pc'[p] = "done"
                       /\ resp'[p] = Response(400, "Bad token")
               /\ pc'[p] \in StorePcs
                    => /\ h.kind = "str"
                       /\ h.val \in Range(consumed')
                       /\ h.val \notin Values(tokens')
       /\ <<journals, tasks>> # <<journals', tasks'>>
            => \E p \in Procs : /\ pc[p] \in {"add_resource", "rm_resource"}
                                /\ pc'[p] # pc[p]
                                /\ req[p].post_token.val \in Range(consumed)
      ]_vars

\* a create with an expired token and one without a token were rejected,
\* and the collections are as main() built them
C10_Witness ==
    \E p, q \in Procs :
        /\ req[p].op \in GatedOps /\ resp[p] = Response(400, "Bad token")
        /\ local[p].rmv_age > VALID_TIME_TOKEN
        /\ req[q].op \in GatedOps /\ resp[q] = Response(400, "Missing token")
        /\ InitialStore

UpdateOps == {"put_resource", "patch_task"}

\* p and q served overlapping update requests for one id, both presenting
\* the etag that was stored at the id when each of them was received
RacingUpdates(p, q) ==
    /\ p # q /\ q \in overlap[p]
    /\ pc[p] = "done" /\ pc[q] = "done"
    /\ req[p].op \in UpdateOps /\ req[q].op \in UpdateOps
    /\ req[p].id = req[q].id
    /\ req[p].if_match.kind = "str" /\ req[p].if_match = req[q].if_match
    /\ req[p].seen = req[p].if_match.val /\ req[q].seen = req[p].if_match.val

\* C3 as claimed: of two concurrent updates of one id that present the same
\* etag, stored before either ran, at most one succeeds.
C3_AtMostOne ==
    \A p, q \in Procs :
        RacingUpdates(p, q) => ~(resp[p].status = 200 /\ resp[q].status = 200)

\* C3 as amended: when an update runs right after another handler's
\* successful update of the same existing id that presented the same etag,
\* it succeeds only if that update left the stored etag equal to the
\* presented one; if that update changed the etag, it observes 412
\* Precondition Failed.
C3_CompareAndSwap ==
    [][\A p \in Procs : (pc[p] \in {"put_resource", "patch_task"} /\ pc'[p] = "done") =>
          LET w == last_write["tasks"]
          IN (/\ req[p].id \in DOMAIN tasks
              /\ req[p].if_match.kind = "str"
              /\ w.proc \notin {NoProc, p} /\ w.req.op \in UpdateOps
              /\ w.id = req[p].id /\ w.existed
              /\ w.req.if_match = req[p].if_match)
             => /\ resp'[p].status = 200 => w.new.etag = req[p].if_match.val
                /\ w.new.etag # req[p].if_match.val
                     => resp'[p] = Response(412, "ETag does not match!")
      ]_vars

\* two racing updates: one succeeded and changed the etag, the other got 412
C3_Witness ==
    \E p, q \in Procs :
        /\ RacingUpdates(p, q)
        /\ resp[p].status = 200 /\ resp[p].etag # req[p].if_match.val
        /\ resp[q].status = 412

\* the same call: the same route, id, body and headers
SameCall(r1, r2) == [r1 EXCEPT !.seen = EmptyEtag] = [r2 EXCEPT !.seen = EmptyEtag]

\* handler p executes the body of put_resource or patch_task in this step
Updates(p) == pc[p] \in {"put_resource", "patch_task"} /\ pc'[p] = "done"

\* the request of p is a PUT, or a PATCH whose document names a field
\* patch_task recognizes
WellFormed(p) ==
    req[p].op = "patch_task"
        => req[p].payload.valid /\ is_updated(from_slice(req[p].payload))

\* the last write to the tasks was this very call, made with the etag that
\* was current then
RepeatsLastWrite(p) ==
    LET w == last_write["tasks"]
    IN /\ w.proc # NoProc /\ w.existed
       /\ SameCall(w.req, req[p])
       /\ w.req.if_match = Header(w.old.etag)

PresentsCurrent(p) ==
    req[p].id \in DOMAIN tasks /\ req[p].if_match = Header(tasks[req[p].id].etag)

\* C4 as claimed: an update that presents the current etag of an existing
\* task succeeds, and the identical call repeated with no write in between
\* fails with 412 Precondition Failed, whatever the payload.
C4_RepeatFails ==
    [][\A p \in Procs : Updates(p) =>
          /\ (PresentsCurrent(p) /\ WellFormed(p)) => resp'[p].status = 200
          /\ RepeatsLastWrite(p) => resp'[p] = Response(412, "ETag does not match!")
      ]_vars

\* C4 as amended: an update that presents the current etag of an existing
\* task succeeds (a PATCH if its document names a recognized field); the
\* identical call repeated with no write in between fails with 412 if the
\* first call changed the stored etag, and succeeds again if the first call
\* left the stored etag equal to the presented one.
C4_RepeatFailsIfChanged ==
    [][\A p \in Procs : Updates(p) =>
          /\ (PresentsCurrent(p) /\ WellFormed(p)) => resp'[p].status = 200
          /\ RepeatsLastWrite(p) =>
                IF last_write["tasks"].new.etag # req[p].if_match.val
                THEN resp'[p] = Response(412, "ETag does not match!")
                ELSE resp'[p].status = 200
      ]_vars

\* a successful update was repeated and the repeat got 412
C4_Witness ==
    \E p \in Procs :
        /\ pc[p] = "done" /\ req[p].op \in UpdateOps
        /\ resp[p] = Response(412, "ETag does not match!")
        /\ RepeatsLastWrite(p)
        /\ last_write["tasks"].new.etag # last_write["tasks"].old.etag

\* C5: after every successful write that leaves a resource, its stored etag
\* is the hash of the serialization of its full payload.
C5_EtagOfPayload ==
    \A c \in Colls :
        (last_write[c].proc # NoProc /\ last_write[c].remains)
            => last_write[c].new.etag = calculate_hash(to_string(c, last_write[c].new))

\* C6: a successful PUT or PATCH of an existing task changes the stored etag
\* if and only if it changes the payload, and get_by_id and get_resources
\* change nothing in the collections.
C6_EtagIffPayload ==
    [][\A p \in Procs :
          /\ (pc[p] \in {"get_by_id", "get_resources"} /\ pc'[p] # pc[p])
                => UNCHANGED <<journals, tasks>>
          /\ (Updates(p) /\ resp'[p].status = 200 /\ req[p].id \in DOMAIN tasks)
                => LET old == tasks[req[p].id]
                       new == tasks'[req[p].id]
                   IN (new.etag # old.etag) <=> ([new EXCEPT !.etag = old.etag] # old)
      ]_vars

\* C7: a successful create stores the resource under an id that was not in
\* the collection, leaves every other entry as it was, and the collection
\* grows by one.
C7_FreshId ==
    [][\A p \in Procs : (pc[p] = "add_resource" /\ pc'[p] # pc[p]) =>
          LET index == IF req[p].op = "merge_tasks" THEN local'[p].location
                       ELSE resp'[p].location
          IN /\ index \notin DOMAIN tasks
             /\ \A i \in DOMAIN tasks : tasks'[i] = tasks[i]
             /\ Cardinality(DOMAIN tasks') = Cardinality(DOMAIN tasks) + 1
      ]_vars

\* the texts and the done flags of the tasks found, in the order of ids
RECURSIVE Found(_, _)
Found(ids, hmap) ==
    IF ids = <<>> THEN <<>>
    ELSE (IF Head(ids) \in DOMAIN hmap THEN <<hmap[Head(ids)]>> ELSE <<>>)
             \o Found(Tail(ids), hmap)

\* the texts joined by single newlines
RECURSIVE JoinLines(_)
JoinLines(items) ==
    IF items = <<>> THEN <<>>
    ELSE IF Len(items) = 1 THEN items[1].text
    ELSE items[1].text \o <<"\n">> \o JoinLines(Tail(items))

\* C8: the task merge_tasks creates has the texts of the tasks found, in the
\* supplied order, joined by single newlines with none leading or trailing,
\* and its done flag is the conjunction of theirs.
C8_MergedText ==
    \A p \in Procs : (req[p].op = "merge_tasks" /\ pc[p] = "add_resource_lock") =>
        LET items == Found(req[p].ids, tasks)
        IN /\ local[p].new_task.text = JoinLines(items)
           /\ local[p].new_task.done = (\A i \in 1..Len(items) : items[i].done)

\* C9: a merge whose creation succeeded does not abort: it ends with 201, and
\* then none of the supplied ids is in the tasks.
C9_MergeCompletes ==
    \A p \in Procs : req[p].op = "merge_tasks" =>
        /\ pc[p] # "panicked"
        /\ (pc[p] = "done" /\ resp[p].status = 201)
              => \A i \in 1..Len(req[p].ids) : req[p].ids[i] \notin DOMAIN tasks

\* handler p executes the body of put_resource in this step
Puts(p) == pc[p] = "put_resource" /\ pc'[p] = "done"

\* C11: put_resource decides from the collection as it is while the handler
\* holds the write lock.  A resource at the id and no If-Match: 428, and a
\* presented etag that differs from the stored one: 412, the collections
\* unchanged in both; no resource at the id: the payload is inserted with
\* its etag whatever the If-Match header, as the only change, and the
\* response is 200 with that etag.
C11_PutOutcome ==
    [][\A p \in Procs : Puts(p) =>
          LET coll == req[p].coll
              id   == req[p].id
              hmap == get_hmap(coll)
              sent == req[p].if_match
              new  == [req[p].json EXCEPT !.etag = calculate_hash(to_string(coll, req[p].json))]
          IN /\ (id \in DOMAIN hmap /\ sent.kind = "none")
                   => /\ resp'[p] = Response(428, "ETag is missing!")
                      /\ UNCHANGED <<journals, tasks>>
             /\ (id \in DOMAIN hmap /\ sent.kind = "str" /\ sent.val # hmap[id].etag)
                   => /\ resp'[p] = Response(412, "ETag does not match!")
                      /\ UNCHANGED <<journals, tasks>>
             /\ id \notin DOMAIN hmap
                   => /\ resp'[p].status = 200 /\ resp'[p].etag = new.etag
                      /\ tasks' = Insert(tasks, id, new)
                      /\ UNCHANGED journals
      ]_vars

\* a PUT without If-Match on a task that an earlier PUT inserted blindly
\* got 428, and the task is as that PUT stored it
C11_Witness ==
    \E p \in Procs :
        LET w == last_write["tasks"]
        IN /\ pc[p] = "done" /\ req[p].op = "put_resource"
           /\ resp[p] = Response(428, "ETag is missing!")
           /\ w.proc # NoProc /\ w.req.op = "put_resource" /\ ~w.existed
           /\ w.req.if_match.kind = "none"
           /\ w.id = req[p].id /\ w.id \in DOMAIN tasks /\ tasks[w.id] = w.new

\* handler p executes the body of patch_task in this step
Patches(p) == pc[p] = "patch_task" /\ pc'[p] = "done"

\* the value of type kind the request document of p gives for key, if any
Names(p, key, kind) ==
    /\ req[p].payload.valid
    /\ json_get(from_slice(req[p].payload), key).kind = kind

\* C12: a PATCH that succeeds sets text to the string the document gives for
\* "text" and done to the boolean it gives for "done", and leaves a field
\* the document does not give as it was; every other task is untouched.  A
\* valid document without a recognized field, on an existing task with the
\* matching etag, gets 400 "Nothing to update", a body no other failure
\* has.  Every PATCH that does not answer 200 leaves the collections
\* unchanged, etags included.
C12_PatchFrame ==
    [][\A p \in Procs : Patches(p) =>
          LET id   == req[p].id
              json == from_slice(req[p].payload)
          IN /\ resp'[p].status = 200 =>
                   /\ id \in DOMAIN tasks /\ DOMAIN tasks' = DOMAIN tasks
                   /\ \A i \in DOMAIN tasks : i # id => tasks'[i] = tasks[i]
                   /\ tasks'[id].text = IF Names(p, "text", "str")
                                        THEN json_get(json, "text").s ELSE tasks[id].text
                   /\ tasks'[id].done = IF Names(p, "done", "bool")
                                        THEN json_get(json, "done").b ELSE tasks[id].done
                   /\ UNCHANGED journals
             /\ resp'[p].status # 200 => UNCHANGED <<journals, tasks>>
             /\ (/\ id \in DOMAIN tasks /\ req[p].if_match = Header(tasks[id].etag)
                 /\ req[p].payload.valid
                 /\ ~Names(p, "text", "str") /\ ~Names(p, "done", "bool"))
                   <=> resp'[p] = Response(400, "Nothing to update")
      ]_vars

\* a PATCH naming only done has flipped done and kept a text that an earlier
\* write had changed
C12_Witness ==
    \E p \in Procs :
        LET w == last_write["tasks"]
        IN /\ pc[p] = "done" /\ req[p].op = "patch_task" /\ resp[p].status = 200
           /\ w.proc = p /\ w.req = req[p]
           /\ Names(p, "done", "bool") /\ ~Names(p, "text", "str")
           /\ w.new.done # w.old.done
           /\ w.new.text = w.old.text /\ w.old.text = TextB

\* the query parameters of a listing, up to the largest usize
WidePages    == {1, 2, 3, UsizeMax}
WidePerPages == {1, 2, UsizeMax}

\* listings of the tasks, between deletes and PUTs that change what is listed
NextList ==
    \/ list_steps(OneHandler) \/ remove_steps(OneHandler) \/ put_steps(OneHandler)
    \/ get_resources_recv_from(OneHandler, "tasks", WidePages, WidePerPages)
    \/ delete_resource_recv(OneHandler, "tasks")
    \/ put_resource_recv(OneHandler, "tasks", IdMenu, {NoHeader})
SpecList == Init /\ [][NextList]_vars

\* handler p executes the body of get_resources in this step
Lists(p) == pc[p] = "get_resources" /\ pc'[p] # "get_resources"

\* ceil(n / d) for d >= 1
Ceil(n, d) == CHOOSE k \in 0..n : k * d >= n /\ (k - 1) * d < n

Min(a, b) == IF a < b THEN a ELSE b
Max(a, b) == IF a > b THEN a ELSE b

\* C13: a listing of a collection of N entries with page >= 1 and
\* per_page >= 1 answers 200 with total_entries = N, total_pages =
\* ceil(N / per_page) and min(per_page, max(0, N - (page - 1) * per_page))
\* entries: none and 0 pages for N = 0, none beyond the last page.
C13_PageCounts ==
    [][\A p \in Procs : (Lists(p) /\ req[p].page >= 1 /\ req[p].per_page >= 1) =>
          LET N == Cardinality(DOMAIN get_hmap(req[p].coll))
          IN /\ resp'[p].status = 200
             /\ resp'[p].total_entries = N
             /\ resp'[p].total_pages = Ceil(N, req[p].per_page)
             /\ Len(resp'[p].entries) =
                    Min(req[p].per_page, Max(0, N - (req[p].page - 1) * req[p].per_page))
      ]_vars

\* the ids of a collection in ascending order
RECURSIVE Ascending(_)
Ascending(ids) ==
    IF ids = {} THEN <<>>
    ELSE LET least == CHOOSE i \in ids : \A j \in ids : i <= j
         IN <<least>> \o Ascending(ids \ {least})

\* C14: the entries of a listing with page >= 1 and per_page >= 1 are the
\* resources at the positions (page - 1) * per_page .. page * per_page - 1
\* of the ids present, taken in ascending order: the store content
\* determines the listing, and every page is in ascending id order.
C14_AscendingWindow ==
    [][\A p \in Procs :
          (Lists(p) /\ req[p].page >= 1 /\ req[p].per_page >= 1 /\ resp'[p].status = 200) =>
              LET ids   == Ascending(DOMAIN get_hmap(req[p].coll))
                  first == (req[p].page - 1) * req[p].per_page
              IN resp'[p].entries =
                    SubSeq(ids, first + 1, Min(Len(ids), first + req[p].per_page))
      ]_vars

\* C15: no request makes its handler panic; a listing with page = 0 or
\* per_page = 0 is answered with a client error, and a merge naming an
\* absent id or one id twice is answered.
C15_NoPanic ==
    \A p \in Procs :
        /\ pc[p] # "panicked"
        /\ (pc[p] = "done" /\ req[p].op = "get_resources"
                /\ (req[p].page = 0 \/ req[p].per_page = 0))
              => resp[p].status \in 400..499

\* handler p holds the mutex of the token ledger / a lock of collection c
HoldsMutex(p)   == tokens_lock = p
HoldsColl(p, c) == rwlock[c].writer = p \/ p \in rwlock[c].readers
HoldsNothing(p) == ~HoldsMutex(p) /\ \A c \in Colls : ~HoldsColl(p, c)

\* C16: in every reachable state no handler holds the mutex of the token
\* ledger together with a lock of the journals or the tasks, and no handler
\* holds the locks of both collections; a handler that is past the token
\* gate has released the mutex.
C16_LocksApart ==
    \A p \in Procs :
        /\ HoldsMutex(p) => \A c \in Colls : ~HoldsColl(p, c)
        /\ ~(HoldsColl(p, "tasks") /\ HoldsColl(p, "journals"))
        /\ HoldsMutex(p) => pc[p] \in {"gen_token", "consume_token"}

\* a create whose token was accepted holds the write lock of its collection
\* while another handler holds the mutex
C16_Witness ==
    \E p, q \in Procs :
        /\ p # q
        /\ req[p].op \in GatedOps /\ pc[p] = "add_resource"
        /\ HoldsColl(p, req[p].coll) /\ req[p].post_token.val \in Range(consumed)
        /\ HoldsMutex(q) /\ pc[q] = "consume_token"

\* the id lists of the merges that run beside other requests
RepeatMerges == {<<0, 1>>, <<0, 0>>}

\* the steps of handler p that the scheduler runs once it serves a request
LiveSteps(p) ==
    \/ gen_token_lock(p) \/ gen_token(p) \/ token_gate(p)
    \/ create_steps(p) \/ remove_steps(p) \/ merger_steps(p)

\* merges, deletes and issues served concurrently, every handler scheduled
\* again and again
NextLive ==
    \E p \in Procs :
        \/ LiveSteps(p)
        \/ gen_token_recv(p)
        \/ merge_tasks_recv(p, RepeatMerges)
        \/ delete_resource_recv(p, "tasks")
SpecLive == Init /\ [][NextLive]_vars /\ \A p \in Procs : WF_vars(LiveSteps(p))

\* C17: under fair scheduling every request a handler has started is
\* eventually completed with a response, the handler holding no lock.
C17_Completes ==
    \A p \in Procs : InFlight(p) ~> (pc[p] = "done" /\ HoldsNothing(p))

\* every started request ends, with a response or with the panic of its
\* handler, and the handler then holds no lock
EndsAndReleases ==
    \A p \in Procs : InFlight(p) ~> (~InFlight(p) /\ HoldsNothing(p))

\* handler p executes State::gen_token in this step
Issues(p) == pc[p] = "gen_token" /\ pc'[p] = "done"

\* C18: an issue sweeps, then appends.  Right after it every entry of the
\* ledger has an age of at most the validity window, the entries that were
\* within the window are all still there, in their order, and the last
\* entry is the token just issued, stamped with the time of the call.
C18_SweepThenAppend ==
    [][\A p \in Procs : Issues(p) =>
          LET kept == SelectSeq(tokens, LAMBDA t : now - t.timestamp <= VALID_TIME_TOKEN)
          IN /\ \A i \in 1..Len(tokens') : now - tokens'[i].timestamp <= VALID_TIME_TOKEN
             /\ tokens' = Append(kept, [timestamp |-> now, value |-> resp'[p].token])
             /\ resp'[p].status = 201
      ]_vars

\* three tokens were issued and none presented: the issue of the third swept
\* the first, older than the window, and kept the second, whose age is
\* exactly the window
C18_Witness ==
    \E p \in Procs :
        /\ pc[p] = "done" /\ req[p].op = "gen_token" /\ resp[p].token = MaxRequests
        /\ nreq = MaxRequests /\ rng = MaxRequests
        /\ Len(tokens) = 2
        /\ tokens[1].timestamp = now - VALID_TIME_TOKEN
        /\ tokens[2] = [timestamp |-> now, value |-> resp[p].token]

\* the merge handler p executes State::add_resource / State::rm_resource /
\* its return in this step
MergeCreates(p) == req[p].op = "merge_tasks" /\ pc[p] = "add_resource" /\ pc'[p] # pc[p]
MergeRemoves(p) == req[p].op = "merge_tasks" /\ pc[p] = "rm_resource" /\ pc'[p] # pc[p]
MergeReturns(p) == req[p].op = "merge_tasks" /\ pc[p] = "merge_tasks_loop" /\ pc'[p] = "done"

\* C19: a merge served alone replaces no task but a supplied source id when
\* it creates the merged task, removes no task but supplied source ids, and
\* when it returns 201 the task at the id of its Location is the merged
\* task, with the merged text and done flag.
C19_MergedTaskStays ==
    [][\A p \in Procs :
          /\ MergeCreates(p) =>
                (local'[p].location \in DOMAIN tasks
                    => local'[p].location \in Range(req[p].ids))
          /\ MergeRemoves(p) => (DOMAIN tasks \ DOMAIN tasks') \subseteq Range(req[p].ids)
          /\ (MergeReturns(p) /\ resp'[p].status = 201) =>
                /\ resp'[p].location \in DOMAIN tasks
                /\ tasks[resp'[p].location].text = local[p].new_task.text
                /\ tasks[resp'[p].location].done = local[p].new_task.done
      ]_vars

\* a merge beside PUTs of its source tasks
NextMergeRace ==
    \E p \in Procs :
        \/ tokens_route(p) \/ token_gate(p) \/ merger_steps(p)
        \/ create_steps(p) \/ remove_steps(p) \/ put_steps(p)
        \/ merge_tasks_recv(p, {<<0, 1>>})
        \/ put_resource_recv(p, "tasks", HotIds, KnownEtags("tasks"))
SpecMergeRace == Init /\ [][NextMergeRace]_vars

\* C20: the merged task is made of the source tasks as they are stored when
\* it is inserted: whatever other handlers wrote before the creation step
\* is in its text and done flag.
C20_MergeReadsCurrent ==
    [][\A p \in Procs : MergeCreates(p) =>
          LET current == merged_task(req[p].ids, tasks)
          IN /\ local[p].new_task.text = current.text
             /\ local[p].new_task.done = current.done
      ]_vars

====
